---- MODULE Spec2Model ----
(***************************************************************************)
(* ERC20Token (src/src/lib.rs): a Stylus ERC-20 ledger.  The storage       *)
(* fields are the variables; every public method is one action, executed   *)
(* by the host as one atomic call: a panic (assert!) reverts every write   *)
(* and every event of the call.  U256 is scaled down to 0..MaxU256 and its *)
(* operators + and - wrap modulo MaxU256 + 1, as they do modulo 2^256.     *)
(***************************************************************************)
EXTENDS Integers, Sequences, FiniteSets, TLC

\* ---------------------------------------------------------------- bounds
\* U256::MAX, scaled down.
MaxU256 == 3
\* Longest event log explored by Spec: a call is taken only if its events fit.
MaxLog == 2
\* Longest event log explored by SpecDeep.
MaxLogDeep == 5
\* Longest event log explored by SpecReads.
MaxLogReads == 4

\* ----------------------------------------------------------------- types
\* Address::ZERO
ZERO == 0
\* msg::sender() values: the externally owned accounts.
Callers == {1, 2}
Address == {ZERO} \cup Callers
U256 == 0..MaxU256
\* Amounts passed to the calls of Spec: none, one unit, everything.
Amounts == {0, 1, MaxU256}
\* Supplies created by init and mint, and allowances granted, in Spec.
Supplies == {1, MaxU256}
\* init arguments (name, symbol, decimals) passed by Spec.
Metadata == {<<"Tok", "TK", 18>>, <<"Test Token", "TEST", 6>>}

\* The storage fields of ERC20Token, the host's event log, and what the host
\* reports of the latest call (its method and its outcome).  first is history:
\* whether the first call made after deployment was init.  history records,
\* of the calls made so far: how often init ran (2 stands for more than once),
\* whether an addition exceeded U256::MAX, and for every owner and spender the
\* amount of the owner's latest approve (granted) and the amount the spender
\* has moved by transfer_from since then (moved).
VARIABLES balances, allowances, total_supply, name, symbol, decimals, log, call, first,
          history

vars ==
  <<balances, allowances, total_supply, name, symbol, decimals, log, call, first, history>>

\* The contract's storage and the host's event log, as one value.
Self ==
  [balances |-> balances, allowances |-> allowances, total_supply |-> total_supply,
   name |-> name, symbol |-> symbol, decimals |-> decimals, log |-> log]

\* ------------------------------------------------------------ primitives
\* U256 `+`: wraps modulo 2^256.
wrapping_add(a, b) == (a + b) % (MaxU256 + 1)

\* U256 `-`: wraps modulo 2^256.
wrapping_sub(a, b) == (a - b + (MaxU256 + 1)) % (MaxU256 + 1)

\* sol! events.
Transfer(from, to, value) == [event |-> "Transfer", a |-> from, b |-> to, value |-> value]

Approval(owner, spender, value) == [event |-> "Approval", a |-> owner, b |-> spender, value |-> value]

\* evm::log: the event joins the log of the call.
evm_log(self, ev) == [self EXCEPT !.log = Append(@, ev)]

\* Outcome of a method body: it returned, or it panicked with a message.
Returned(self) == [status |-> "ok", self |-> self]

Panicked(self, msg) == [status |-> msg, self |-> self]

\* Outcome of a &self method: it returned value and wrote nothing.
View(self, value) == [status |-> "ok", self |-> self, value |-> value]

\* ------------------------------------------------------------- read-only
get_name(self) == self.name

get_symbol(self) == self.symbol

get_decimals(self) == self.decimals

get_total_supply(self) == self.total_supply

balance_of(self, account) == self.balances[account]

allowance(self, owner, spender) == self.allowances[owner][spender]

\* ---------------------------------------------------------- method bodies
\* Mutant of _transfer: logs the event with sender and receiver exchanged.
_transfer_swapped_event(self, from, to, amount) ==
  LET from_balance == self.balances[from] IN
  IF ~(from_balance >= amount)
  THEN Panicked(self, "Insufficient balance")
  ELSE LET new_from_balance == wrapping_sub(from_balance, amount)
           s1 == [self EXCEPT !.balances[from] = new_from_balance]
           to_balance == s1.balances[to]
           new_to_balance == wrapping_add(to_balance, amount)
           s2 == [s1 EXCEPT !.balances[to] = new_to_balance]
       IN  Returned(evm_log(s2, Transfer(to, from, amount)))

\* Mutant of _transfer: requires the balance to exceed the amount.
_transfer_strict(self, from, to, amount) ==
  LET from_balance == self.balances[from] IN
  IF ~(from_balance > amount)
  THEN Panicked(self, "Insufficient balance")
  ELSE LET new_from_balance == wrapping_sub(from_balance, amount)
           s1 == [self EXCEPT !.balances[from] = new_from_balance]
           to_balance == s1.balances[to]
           new_to_balance == wrapping_add(to_balance, amount)
           s2 == [s1 EXCEPT !.balances[to] = new_to_balance]
       IN  Returned(evm_log(s2, Transfer(from, to, amount)))

\* Mutant of _transfer: reads the destination balance before the debit is stored.
_transfer_stale_read(self, from, to, amount) ==
  LET from_balance == self.balances[from]
      to_balance == self.balances[to] IN
  IF ~(from_balance >= amount)
  THEN Panicked(self, "Insufficient balance")
  ELSE LET new_from_balance == wrapping_sub(from_balance, amount)
           s1 == [self EXCEPT !.balances[from] = new_from_balance]
           new_to_balance == wrapping_add(to_balance, amount)
           s2 == [s1 EXCEPT !.balances[to] = new_to_balance]
       IN  Returned(evm_log(s2, Transfer(from, to, amount)))

_transfer(self, from, to, amount) ==
  LET from_balance == self.balances[from] IN
  IF ~(from_balance >= amount)
  THEN Panicked(self, "Insufficient balance")
  ELSE LET new_from_balance == wrapping_sub(from_balance, amount)
           s1 == [self EXCEPT !.balances[from] = new_from_balance]
           to_balance == s1.balances[to]
           new_to_balance == wrapping_add(to_balance, amount)
           s2 == [s1 EXCEPT !.balances[to] = new_to_balance]
       IN  Returned(evm_log(s2, Transfer(from, to, amount)))

\* Mutant of init: credits the supply on top of the caller's balance.
init_credits(self, sender, n, sy, d, initial_supply) ==
  LET s1 == [self EXCEPT !.name = n, !.symbol = sy, !.decimals = d,
                         !.total_supply = initial_supply]
      s2 == [s1 EXCEPT !.balances[sender] = wrapping_add(@, initial_supply)]
  IN  Returned(evm_log(s2, Transfer(ZERO, sender, initial_supply)))

init(self, sender, n, sy, d, initial_supply) ==
  LET s1 == [self EXCEPT !.name = n, !.symbol = sy, !.decimals = d,
                         !.total_supply = initial_supply]
      s2 == [s1 EXCEPT !.balances[sender] = initial_supply]
  IN  Returned(evm_log(s2, Transfer(ZERO, sender, initial_supply)))

\* Mutant of transfer: takes the amount out of total_supply as well.
transfer_burns(self, sender, to, amount) ==
  LET out == _transfer(self, sender, to, amount) IN
  IF out.status = "ok"
  THEN Returned([out.self EXCEPT !.total_supply = wrapping_sub(@, amount)])
  ELSE out

transfer(self, sender, to, amount) == _transfer(self, sender, to, amount)

\* Mutant of approve: raises the allowance instead of overwriting it.
approve_adds(self, owner, spender, amount) ==
  LET s1 == [self EXCEPT !.allowances[owner][spender] = wrapping_add(@, amount)]
  IN  Returned(evm_log(s1, Approval(owner, spender, s1.allowances[owner][spender])))

approve(self, owner, spender, amount) ==
  LET s1 == [self EXCEPT !.allowances[owner][spender] = amount]
  IN  Returned(evm_log(s1, Approval(owner, spender, amount)))

\* Mutant of transfer_from: stores the decrement under the spender's own grants.
transfer_from_wrong_entry(self, spender, from, to, amount) ==
  LET current_allowance == self.allowances[from][spender] IN
  IF ~(current_allowance >= amount)
  THEN Panicked(self, "Insufficient allowance")
  ELSE LET new_allowance == wrapping_sub(current_allowance, amount)
           s1 == [self EXCEPT !.allowances[spender][from] = new_allowance]
           s2 == evm_log(s1, Approval(from, spender, new_allowance))
       IN  _transfer(s2, from, to, amount)

\* Mutant of transfer_from: checks the owner's balance before the allowance.
transfer_from_balance_first(self, spender, from, to, amount) ==
  LET current_allowance == self.allowances[from][spender] IN
  IF ~(self.balances[from] >= amount)
  THEN Panicked(self, "Insufficient balance")
  ELSE IF ~(current_allowance >= amount)
  THEN Panicked(self, "Insufficient allowance")
  ELSE LET new_allowance == wrapping_sub(current_allowance, amount)
           s1 == [self EXCEPT !.allowances[from][spender] = new_allowance]
           s2 == evm_log(s1, Approval(from, spender, new_allowance))
       IN  _transfer(s2, from, to, amount)

\* Mutant of transfer_from: spends without checking the allowance.
transfer_from_unchecked(self, spender, from, to, amount) ==
  LET current_allowance == self.allowances[from][spender]
      new_allowance == wrapping_sub(current_allowance, amount)
      s1 == [self EXCEPT !.allowances[from][spender] = new_allowance]
      s2 == evm_log(s1, Approval(from, spender, new_allowance))
  IN  _transfer(s2, from, to, amount)

\* Mutant of transfer_from: announces the allowance read before the decrement.
transfer_from_stale_event(self, spender, from, to, amount) ==
  LET current_allowance == self.allowances[from][spender] IN
  IF ~(current_allowance >= amount)
  THEN Panicked(self, "Insufficient allowance")
  ELSE LET new_allowance == wrapping_sub(current_allowance, amount)
           s1 == [self EXCEPT !.allowances[from][spender] = new_allowance]
           s2 == evm_log(s1, Approval(from, spender, current_allowance))
       IN  _transfer(s2, from, to, amount)

transfer_from(self, spender, from, to, amount) ==
  LET current_allowance == self.allowances[from][spender] IN
  IF ~(current_allowance >= amount)
  THEN Panicked(self, "Insufficient allowance")
  ELSE LET new_allowance == wrapping_sub(current_allowance, amount)
           s1 == [self EXCEPT !.allowances[from][spender] = new_allowance]
           s2 == evm_log(s1, Approval(from, spender, new_allowance))
       IN  _transfer(s2, from, to, amount)

\* Mutant of mint: credits the balance and leaves total_supply alone.
mint_skips_supply(self, to, amount) ==
  LET current_balance == self.balances[to]
      new_balance == wrapping_add(current_balance, amount)
      s2 == [self EXCEPT !.balances[to] = new_balance]
  IN  Returned(evm_log(s2, Transfer(ZERO, to, amount)))

mint(self, to, amount) ==
  LET new_total_supply == wrapping_add(self.total_supply, amount)
      s1 == [self EXCEPT !.total_supply = new_total_supply]
      current_balance == s1.balances[to]
      new_balance == wrapping_add(current_balance, amount)
      s2 == [s1 EXCEPT !.balances[to] = new_balance]
  IN  Returned(evm_log(s2, Transfer(ZERO, to, amount)))

\* ------------------------------------------------------------------ host
\* What a call with outcome out leaves behind: the writes and events of a body
\* that returned are kept, those of a body that panicked are reverted.
Commit(out) == IF out.status = "ok" THEN out.self ELSE Self

\* One host call of method op; the caller learns the outcome.
Execute(op, out) ==
  LET res == out
      kept == Commit(res)
  IN  /\ call' = [op |-> op, status |-> res.status]
      /\ first' = IF first # "none" THEN first ELSE IF op = "init" THEN "init" ELSE "other"
      /\ balances' = kept.balances
      /\ allowances' = kept.allowances
      /\ total_supply' = kept.total_supply
      /\ name' = kept.name
      /\ symbol' = kept.symbol
      /\ decimals' = kept.decimals
      /\ log' = kept.log

\* An addition of mint(to, amount) exceeds U256::MAX.
MintOverflows(to, amount) ==
  \/ get_total_supply(Self) + amount > MaxU256
  \/ balance_of(Self, to) + amount > MaxU256

\* The addition of _transfer(from, to, amount) exceeds U256::MAX.
TransferOverflows(from, to, amount) ==
  /\ balance_of(Self, from) >= amount
  /\ from # to
  /\ balance_of(Self, to) + amount > MaxU256

CallInit(sender, n, sy, d, initial_supply) ==
  /\ Execute("init", init(Self, sender, n, sy, d, initial_supply))
  /\ history' = [history EXCEPT !.inits = IF @ = 0 THEN 1 ELSE 2]

CallTransfer(sender, to, amount) ==
  /\ Execute("transfer", transfer(Self, sender, to, amount))
  /\ history' = [history EXCEPT !.wrapped = @ \/ TransferOverflows(sender, to, amount)]

CallApprove(sender, spender, amount) ==
  /\ Execute("approve", approve(Self, sender, spender, amount))
  /\ history' = [history EXCEPT !.granted[sender][spender] = amount,
                                !.moved[sender][spender] = 0]

CallTransferFrom(sender, from, to, amount) ==
  /\ Execute("transfer_from", transfer_from(Self, sender, from, to, amount))
  /\ history' =
       IF transfer_from(Self, sender, from, to, amount).status = "ok"
       THEN [history EXCEPT !.wrapped = @ \/ TransferOverflows(from, to, amount),
                            !.moved[from][sender] = @ + amount]
       ELSE history

CallMint(sender, to, amount) ==
  /\ Execute("mint", mint(Self, to, amount))
  /\ history' = [history EXCEPT !.wrapped = @ \/ MintOverflows(to, amount)]

\* The read-only methods, called through the host like the others.
CallName(sender) ==
  Execute("name", View(Self, get_name(Self))) /\ UNCHANGED history

CallSymbol(sender) ==
  Execute("symbol", View(Self, get_symbol(Self))) /\ UNCHANGED history

CallDecimals(sender) ==
  Execute("decimals", View(Self, get_decimals(Self))) /\ UNCHANGED history

CallTotalSupply(sender) ==
  Execute("total_supply", View(Self, get_total_supply(Self))) /\ UNCHANGED history

CallBalanceOf(sender, account) ==
  Execute("balance_of", View(Self, balance_of(Self, account))) /\ UNCHANGED history

CallAllowance(sender, owner, spender) ==
  Execute("allowance", View(Self, allowance(Self, owner, spender))) /\ UNCHANGED history

\* --------------------------------------------------------- specification
Init ==
  /\ balances = [a \in Address |-> 0]
  /\ allowances = [o \in Address |-> [s \in Address |-> 0]]
  /\ total_supply = 0
  /\ name = ""
  /\ symbol = ""
  /\ decimals = 0
  /\ log = <<>>
  /\ call = [op |-> "deploy", status |-> "ok"]
  /\ first = "none"
  /\ history = [inits |-> 0, wrapped |-> FALSE,
                granted |-> [o \in Address |-> [s \in Address |-> 0]],
                moved |-> [o \in Address |-> [s \in Address |-> 0]]]

\* Spec: both callers, every destination, short logs.
InitCalls ==
  \E sender \in Callers, m \in Metadata, initial_supply \in Supplies :
    CallInit(sender, m[1], m[2], m[3], initial_supply) /\ Len(log') <= MaxLog

TransferCalls ==
  \E sender \in Callers, to \in Address, amount \in Amounts :
    CallTransfer(sender, to, amount) /\ Len(log') <= MaxLog

ApproveCalls ==
  \E sender \in Callers, spender \in Callers, amount \in Supplies :
    CallApprove(sender, spender, amount) /\ Len(log') <= MaxLog

TransferFromCalls ==
  \E sender \in Callers, from \in Callers, to \in Callers, amount \in Amounts :
    CallTransferFrom(sender, from, to, amount) /\ Len(log') <= MaxLog

MintCalls ==
  \E sender \in Callers, to \in Address, amount \in Supplies :
    CallMint(sender, to, amount) /\ Len(log') <= MaxLog

Next == InitCalls \/ TransferCalls \/ ApproveCalls \/ TransferFromCalls \/ MintCalls

Spec == Init /\ [][Next]_vars

\* SpecDeep: an owner who approves, a spender, whole balances, longer logs.
Owner == 1
Spender == 2

DeepInitCalls ==
  CallInit(Owner, "Tok", "TK", 18, MaxU256) /\ Len(log') <= MaxLogDeep

DeepTransferCalls ==
  \E sender \in Callers : \E to \in Callers \ {sender} :
    CallTransfer(sender, to, 1) /\ Len(log') <= MaxLogDeep

DeepApproveCalls ==
  \E amount \in {1, MaxU256} :
    CallApprove(Owner, Spender, amount) /\ Len(log') <= MaxLogDeep

DeepTransferFromCalls ==
  \E sender \in Callers, to \in Callers, amount \in {1, MaxU256} :
    CallTransferFrom(sender, Owner, to, amount) /\ Len(log') <= MaxLogDeep

DeepMintCalls ==
  \E to \in Callers :
    CallMint(Owner, to, MaxU256) /\ Len(log') <= MaxLogDeep

NextDeep ==
  DeepInitCalls \/ DeepTransferCalls \/ DeepApproveCalls \/ DeepTransferFromCalls
    \/ DeepMintCalls

SpecDeep == Init /\ [][NextDeep]_vars

\* SpecReads: the owner's and the spender's calls and the read-only methods
\* between them.
ReadsInitCalls ==
  CallInit(Owner, "Tok", "TK", 18, MaxU256) /\ Len(log') <= MaxLogReads

ReadsTransferCalls ==
  CallTransfer(Owner, Spender, 1) /\ Len(log') <= MaxLogReads

ReadsApproveCalls ==
  \E amount \in {1, MaxU256} :
    CallApprove(Owner, Spender, amount) /\ Len(log') <= MaxLogReads

ReadsTransferFromCalls ==
  \E to \in Callers, amount \in {1, MaxU256} :
    CallTransferFrom(Spender, Owner, to, amount) /\ Len(log') <= MaxLogReads

ReadsMintCalls ==
  CallMint(Spender, Spender, 1) /\ Len(log') <= MaxLogReads

NameCalls == \E sender \in Callers : CallName(sender)

SymbolCalls == \E sender \in Callers : CallSymbol(sender)

DecimalsCalls == \E sender \in Callers : CallDecimals(sender)

TotalSupplyCalls == \E sender \in Callers : CallTotalSupply(sender)

BalanceOfCalls == \E sender \in Callers, account \in Address : CallBalanceOf(sender, account)

AllowanceCalls ==
  \E sender \in Callers, owner \in Callers, spender \in Callers :
    CallAllowance(sender, owner, spender)

NextReads ==
  \/ ReadsInitCalls \/ ReadsTransferCalls \/ ReadsApproveCalls
  \/ ReadsTransferFromCalls \/ ReadsMintCalls
  \/ NameCalls \/ SymbolCalls \/ DecimalsCalls \/ TotalSupplyCalls
  \/ BalanceOfCalls \/ AllowanceCalls

SpecReads == Init /\ [][NextReads]_vars

\* ================================================================ claims
RECURSIVE SumOver(_, _)
\* The sum of f over the set S.
SumOver(f, S) ==
  IF S = {} THEN 0
  ELSE LET a == CHOOSE x \in S : TRUE IN f[a] + SumOver(f, S \ {a})

\* The storage a call must leave alone when it fails.
Ledger == <<balances, allowances, total_supply, name, symbol, decimals, log>>

Last(seq) == seq[Len(seq)]

\* C1: conservation of supply: in every sequence of calls that starts with
\* init, the sum of all balances equals total_supply after every call.
C1_ConservationOfSupply ==
  first = "init" => SumOver(balances, Address) = total_supply

\* C2: after every call of any sequence, no balance exceeds total_supply.
C2_BalanceAtMostSupply ==
  \A a \in Address : balance_of(Self, a) <= get_total_supply(Self)

\* A call that panicked (insufficient balance, insufficient allowance) leaves
\* the ledger and the log as they were; so does a transfer_from that passed
\* the allowance check and failed the balance check.
PanicChangesNothing ==
  call'.status # "ok" => UNCHANGED Ledger

\* A call in which an addition overflows leaves the ledger and the log as
\* they were.
OverflowChangesNothing ==
  /\ \A sender \in Callers, to \in Address, amount \in U256 :
       CallMint(sender, to, amount) /\ MintOverflows(to, amount) => UNCHANGED Ledger
  /\ \A sender \in Callers, to \in Address, amount \in U256 :
       CallTransfer(sender, to, amount) /\ TransferOverflows(sender, to, amount)
         => UNCHANGED Ledger
  /\ \A sender \in Callers, from \in Address, to \in Address, amount \in U256 :
       /\ CallTransferFrom(sender, from, to, amount)
       /\ allowance(Self, from, sender) >= amount
       /\ TransferOverflows(from, to, amount)
       => UNCHANGED Ledger

\* C3: a failed call (insufficient balance, insufficient allowance, or an
\* overflow) leaves all balances, all allowances and total_supply as they were
\* and appends no event.
C3_FailedCallChangesNothing ==
  [][PanicChangesNothing /\ OverflowChangesNothing]_vars

\* C9: mint(to, amount) fails when total_supply + amount or balances[to] +
\* amount would exceed U256::MAX: the call aborts, total_supply and every
\* balance keep their values (no wrap-around), and no event is emitted.
C9_MintOverflowFails ==
  [][call'.op = "mint" =>
     \A sender \in Callers, to \in Address, amount \in U256 :
       CallMint(sender, to, amount) /\ MintOverflows(to, amount)
         => /\ call'.status # "ok"
            /\ total_supply' = total_supply
            /\ balances' = balances
            /\ log' = log]_vars

\* C8: mint is unguarded: by any caller, in any state where no addition
\* overflows, it adds amount to total_supply and to balances[to], changes no
\* other balance and no allowance, and appends exactly Transfer(0x0, to, amount).
C8_MintUnguarded ==
  \A sender \in Callers, to \in Address, amount \in U256 :
    ~MintOverflows(to, amount) =>
      LET out == mint(Self, to, amount)
          after == Commit(out)
      IN  /\ out.status = "ok"
          /\ get_total_supply(after) = get_total_supply(Self) + amount
          /\ balance_of(after, to) = balance_of(Self, to) + amount
          /\ \A a \in Address \ {to} : balance_of(after, a) = balance_of(Self, a)
          /\ after.allowances = allowances
          /\ after.log = Append(log, Transfer(ZERO, to, amount))

\* A mint of a positive amount on top of an existing balance, without overflow.
C8_Witness ==
  /\ call = [op |-> "mint", status |-> "ok"]
  /\ \E to \in Address, v \in 1..MaxU256 :
       /\ Last(log) = Transfer(ZERO, to, v)
       /\ balance_of(Self, to) > v
       /\ get_total_supply(Self) >= balance_of(Self, to)

\* The value of the latest Approval(owner, spender, _) of the log l, 0 if none.
RECURSIVE LastApproved(_, _, _)
LastApproved(l, owner, spender) ==
  IF l = <<>> THEN 0
  ELSE LET e == Last(l) IN
       IF e.event = "Approval" /\ e.a = owner /\ e.b = spender
       THEN e.value
       ELSE LastApproved(SubSeq(l, 1, Len(l) - 1), owner, spender)

\* C7: approve(spender, amount) always succeeds and overwrites: afterwards
\* allowance(caller, spender) = amount whatever it was, and exactly
\* Approval(caller, spender, amount) is appended; allowance(o, s) is always the
\* value last stored for (o, s), which every store announces, or 0.
C7_ApproveOverwrites ==
  /\ \A sender \in Callers, spender \in Address, amount \in U256 :
       LET out == approve(Self, sender, spender, amount)
           after == Commit(out)
       IN  /\ out.status = "ok"
           /\ allowance(after, sender, spender) = amount
           /\ after.log = Append(log, Approval(sender, spender, amount))
  /\ \A o \in Address, s \in Address :
       allowance(Self, o, s) = LastApproved(log, o, s)

\* An approve that replaced a different, non-zero allowance.
C7_Witness ==
  /\ call = [op |-> "approve", status |-> "ok"]
  /\ Len(log) >= 2
  /\ \E o \in Callers, s \in Address, old \in 1..MaxU256, new \in U256 :
       /\ old # new
       /\ log[Len(log) - 1] = Approval(o, s, old)
       /\ Last(log) = Approval(o, s, new)
       /\ allowance(Self, o, s) = new

\* C10: init(name, symbol, decimals, initial_supply) stores the metadata that
\* name(), symbol() and decimals() return, sets total_supply and the caller's
\* balance to initial_supply and appends exactly
\* Transfer(0x0, caller, initial_supply).
C10_InitStores ==
  \A sender \in Callers, m \in Metadata, initial_supply \in U256 :
    LET out == init(Self, sender, m[1], m[2], m[3], initial_supply)
        after == Commit(out)
    IN  /\ out.status = "ok"
        /\ get_name(after) = m[1]
        /\ get_symbol(after) = m[2]
        /\ get_decimals(after) = m[3]
        /\ get_total_supply(after) = initial_supply
        /\ balance_of(after, sender) = initial_supply
        /\ after.log = Append(log, Transfer(ZERO, sender, initial_supply))

\* An init that came after an earlier init with other arguments.
C10_Witness ==
  /\ call = [op |-> "init", status |-> "ok"]
  /\ Len(log) = 2
  /\ get_name(Self) = "Test Token"
  /\ \E s \in Callers, v \in 1..MaxU256, w \in 1..MaxU256 :
       /\ log = <<Transfer(ZERO, s, v), Transfer(ZERO, s, w)>>
       /\ v # w
       /\ balance_of(Self, s) = w
       /\ get_total_supply(Self) = w

\* C4: transfer(to, amount) by caller succeeds exactly when balances[caller] >=
\* amount and otherwise fails with "Insufficient balance"; on success with
\* to # caller the caller's balance falls by amount, to's balance rises by
\* amount, no other balance changes and exactly Transfer(caller, to, amount)
\* is appended.
C4_Transfer ==
  [][call'.op = "transfer" =>
     \A sender \in Callers, to \in Address, amount \in U256 :
       CallTransfer(sender, to, amount)
         => /\ (call'.status = "ok") <=> (balance_of(Self, sender) >= amount)
            /\ balance_of(Self, sender) < amount
                 => call'.status = "Insufficient balance"
            /\ (call'.status = "ok" /\ to # sender)
                 => /\ balances'[sender] = balances[sender] - amount
                    /\ balances'[to] = balances[to] + amount
                    /\ \A a \in Address \ {sender, to} : balances'[a] = balances[a]
                    /\ log' = Append(log, Transfer(sender, to, amount))]_vars

\* C5: transfer_from(from, to, amount) by caller succeeds exactly when
\* allowances[from][caller] >= amount and balances[from] >= amount; on success
\* that allowance falls by exactly amount, from's balance falls and to's
\* balance rises by amount (to # from), and nothing else changes.
C5_TransferFrom ==
  [][call'.op = "transfer_from" =>
     \A sender \in Callers, from \in Address, to \in Address, amount \in U256 :
       CallTransferFrom(sender, from, to, amount)
         => /\ (call'.status = "ok")
                 <=> (allowance(Self, from, sender) >= amount
                        /\ balance_of(Self, from) >= amount)
            /\ call'.status = "ok"
                 => /\ allowances'[from][sender] = allowances[from][sender] - amount
                    /\ \A o \in Address, s \in Address :
                         <<o, s>> # <<from, sender>>
                           => allowances'[o][s] = allowances[o][s]
                    /\ to # from
                         => /\ balances'[from] = balances[from] - amount
                            /\ balances'[to] = balances[to] + amount
                    /\ \A a \in Address \ {from, to} : balances'[a] = balances[a]]_vars

\* C6: every successful transfer_from(from, to, amount) by caller appends
\* exactly Approval(from, caller, v), v the allowance after the decrement, and
\* then Transfer(from, to, amount); when the allowance equalled amount it
\* becomes 0 and the first event is Approval(from, caller, 0).
C6_TransferFromEvents ==
  \A sender \in Callers, from \in Address, to \in Address, amount \in U256 :
    LET out == transfer_from(Self, sender, from, to, amount)
        after == Commit(out)
    IN  out.status = "ok" =>
          /\ after.log = log \o <<Approval(from, sender, allowance(after, from, sender)),
                                  Transfer(from, to, amount)>>
          /\ allowance(Self, from, sender) = amount
               => /\ allowance(after, from, sender) = 0
                  /\ after.log[Len(log) + 1] = Approval(from, sender, 0)

\* A transfer_from of a positive amount that used up the whole allowance.
C6_Witness ==
  /\ call = [op |-> "transfer_from", status |-> "ok"]
  /\ Len(log) >= 2
  /\ \E o \in Callers, s \in Callers, to \in Address, v \in 1..MaxU256 :
       /\ log[Len(log) - 1] = Approval(o, s, 0)
       /\ Last(log) = Transfer(o, to, v)
       /\ allowance(Self, o, s) = 0

\* C11: in the state right after any init(_, _, _, initial_supply) by caller d,
\* whatever calls came before, balances[d] and total_supply equal
\* initial_supply and every other balance and every allowance is 0.
C11_InitResetsLedger ==
  [][call'.op = "init" =>
     \A sender \in Callers, m \in Metadata, initial_supply \in U256 :
       CallInit(sender, m[1], m[2], m[3], initial_supply)
         => /\ balances'[sender] = initial_supply
            /\ total_supply' = initial_supply
            /\ \A a \in Address \ {sender} : balances'[a] = 0
            /\ \A o \in Address, sp \in Address : allowances'[o][sp] = 0]_vars

C13_SelfTransfer ==
  /\ \A sender \in Callers, amount \in U256 :
       balance_of(Self, sender) >= amount =>
         LET out == transfer(Self, sender, sender, amount)
             after == Commit(out)
         IN  /\ out.status = "ok"
             /\ after.balances = balances
             /\ after.log = Append(log, Transfer(sender, sender, amount))
  /\ \A sender \in Callers, from \in Address, amount \in U256 :
       LET out == transfer_from(Self, sender, from, from, amount)
           after == Commit(out)
       IN  out.status = "ok" => balance_of(after, from) = balance_of(Self, from)

\* A caller sent a positive amount to itself and holds what it held.
C13_Witness ==
  /\ call = [op |-> "transfer", status |-> "ok"]
  /\ Len(log) = 2
  /\ \E c \in Callers, v \in 1..MaxU256, w \in 1..MaxU256 :
       /\ log = <<Transfer(ZERO, c, w), Transfer(c, c, v)>>
       /\ balance_of(Self, c) = w

\* C14: zero-amount calls: transfer(a, 0) and transfer_from(a, b, 0) succeed
\* for every caller in every state, whatever the caller's balance or
\* allowance, change no balance, no allowance and not total_supply, and emit
\* Transfer(caller, a, 0), respectively Approval(a, caller, current allowance)
\* then Transfer(a, b, 0).
C14_ZeroAmount ==
  /\ \A sender \in Callers, a \in Address :
       LET out == transfer(Self, sender, a, 0)
           after == Commit(out)
       IN  /\ out.status = "ok"
           /\ after.balances = balances
           /\ after.allowances = allowances
           /\ after.total_supply = total_supply
           /\ after.log = Append(log, Transfer(sender, a, 0))
  /\ \A sender \in Callers, a \in Address, b \in Address :
       LET out == transfer_from(Self, sender, a, b, 0)
           after == Commit(out)
       IN  /\ out.status = "ok"
           /\ after.balances = balances
           /\ after.allowances = allowances
           /\ after.total_supply = total_supply
           /\ after.log = log \o <<Approval(a, sender, allowance(Self, a, sender)),
                                   Transfer(a, b, 0)>>

\* A transfer_from of nothing, by a spender without allowance from an owner
\* without funds, went through and left its two events.
C14_Witness ==
  /\ call = [op |-> "transfer_from", status |-> "ok"]
  /\ \E c \in Callers, a \in Callers, b \in Callers :
       /\ log = <<Approval(a, c, 0), Transfer(a, b, 0)>>
       /\ allowance(Self, a, c) = 0
       /\ balance_of(Self, a) = 0

\* approve changes no balance; transfer, mint and init change no allowance.
AllowancesBalancesApart ==
  /\ \A sender \in Callers, spender \in Address, amount \in U256 :
       Commit(approve(Self, sender, spender, amount)).balances = balances
  /\ \A sender \in Callers, to \in Address, amount \in U256 :
       /\ Commit(transfer(Self, sender, to, amount)).allowances = allowances
       /\ Commit(mint(Self, to, amount)).allowances = allowances
  /\ \A sender \in Callers, m \in Metadata, initial_supply \in U256 :
       Commit(init(Self, sender, m[1], m[2], m[3], initial_supply)).allowances
         = allowances

\* In the state after, left by a transfer_from(from, _, amount) by sender, no
\* allowance but allowances[from][sender] differs, and that one fell by amount.
OneAllowanceSpent(after, sender, from, amount) ==
  /\ \A o \in Address, s \in Address :
       <<o, s>> # <<from, sender>> => allowance(after, o, s) = allowance(Self, o, s)
  /\ allowance(after, from, sender) = allowance(Self, from, sender) - amount

\* What the call that left the state after took from balances[from], and
\* what it took from allowances[from][sender].
BalanceDrop(after, from) == balance_of(Self, from) - balance_of(after, from)

AllowanceDrop(after, sender, from) ==
  allowance(Self, from, sender) - allowance(after, from, sender)

\* C15 as stated: allowances and balances are independent: approve changes no
\* balance; transfer, mint and init change no allowance; transfer_from changes
\* only allowances[from][caller], and decrements it by the same amount by
\* which it decrements balances[from].
C15_AsStated ==
  /\ AllowancesBalancesApart
  /\ \A sender \in Callers, from \in Address, to \in Address, amount \in U256 :
       LET out == transfer_from(Self, sender, from, to, amount)
           after == Commit(out)
       IN  out.status = "ok" =>
             /\ OneAllowanceSpent(after, sender, from, amount)
             /\ AllowanceDrop(after, sender, from) = BalanceDrop(after, from)

\* C15, amended: approve changes no balance; transfer, mint and init change no
\* allowance; transfer_from changes only allowances[from][caller], which
\* falls by amount; balances[from] falls by the same amount when to # from,
\* and keeps its value when to = from.
C15_AllowancesAndBalances ==
  /\ AllowancesBalancesApart
  /\ \A sender \in Callers, from \in Address, to \in Address, amount \in U256 :
       LET out == transfer_from(Self, sender, from, to, amount)
           after == Commit(out)
       IN  out.status = "ok" =>
             /\ OneAllowanceSpent(after, sender, from, amount)
             /\ to # from => AllowanceDrop(after, sender, from) = BalanceDrop(after, from)
             /\ to = from => BalanceDrop(after, from) = 0

\* The spender moved a positive amount from the owner to the owner: the
\* allowance fell, the owner's balance did not.
C15_Witness ==
  /\ call = [op |-> "transfer_from", status |-> "ok"]
  /\ Len(log) >= 2
  /\ \E v \in 1..MaxU256 :
       /\ Last(log) = Transfer(Owner, Owner, v)
       /\ log[Len(log) - 1] = Approval(Owner, Spender, allowance(Self, Owner, Spender))
       /\ history.moved[Owner][Spender] = v
       /\ balance_of(Self, Owner) >= v

\* The methods that take &self.
ReadOps == {"name", "symbol", "decimals", "total_supply", "balance_of", "allowance"}

\* C16: total_supply changes only in init and mint: transfer, transfer_from,
\* approve and every read operation leave it unchanged, and the read
\* operations change no state and emit no event.
C16_SupplyChangesOnlyInInitAndMint ==
  [][/\ call'.op \notin {"init", "mint"} => total_supply' = total_supply
     /\ call'.op \in ReadOps => call'.status = "ok" /\ UNCHANGED Ledger]_vars

\* total_supply() was read after an init and a transfer between accounts, and
\* the supply is still what init made it.
C16_Witness ==
  /\ call = [op |-> "total_supply", status |-> "ok"]
  /\ log = <<Transfer(ZERO, Owner, MaxU256), Transfer(Owner, Spender, 1)>>
  /\ get_total_supply(Self) = MaxU256

\* C17: transfer_from checks the allowance before the balance: when both
\* allowances[from][caller] < amount and balances[from] < amount the call fails
\* with "Insufficient allowance"; it fails with "Insufficient balance" only
\* when allowances[from][caller] >= amount and balances[from] < amount.
C17_AllowanceCheckedFirst ==
  \A sender \in Callers, from \in Address, to \in Address, amount \in U256 :
    LET out == transfer_from(Self, sender, from, to, amount) IN
      /\ (allowance(Self, from, sender) < amount /\ balance_of(Self, from) < amount)
           => out.status = "Insufficient allowance"
      /\ out.status = "Insufficient balance"
           <=> (allowance(Self, from, sender) >= amount /\ balance_of(Self, from) < amount)

\* After some successful call, a transfer_from on an owner who holds nothing
\* and has granted nothing was refused for the allowance.
C17_Witness ==
  /\ call = [op |-> "transfer_from", status |-> "Insufficient allowance"]
  /\ Len(log) >= 1
  /\ balance_of(Self, Owner) = 0
  /\ \A s \in Callers : allowance(Self, Owner, s) = 0

\* C18: in every reachable state a transfer or transfer_from whose destination
\* addition balances[to] + amount would exceed U256::MAX fails with all state
\* unchanged; balances[to] never wraps around.
C18_TransferOverflowFails ==
  [][call'.op \in {"transfer", "transfer_from"} =>
       /\ \A sender \in Callers, to \in Address, amount \in U256 :
            CallTransfer(sender, to, amount) /\ TransferOverflows(sender, to, amount)
              => /\ call'.status # "ok"
                 /\ balances'[to] = balances[to]
                 /\ UNCHANGED Ledger
       /\ \A sender \in Callers, from \in Address, to \in Address, amount \in U256 :
            /\ CallTransferFrom(sender, from, to, amount)
            /\ allowance(Self, from, sender) >= amount
            /\ TransferOverflows(from, to, amount)
            => /\ call'.status # "ok"
               /\ balances'[to] = balances[to]
               /\ UNCHANGED Ledger]_vars

\* The step is a call by account a that may lower a's own balance: a
\* transfer or an init made by a.
OwnCall(a) ==
  \/ \E to \in Address, amount \in U256 : CallTransfer(a, to, amount)
  \/ \E m \in Metadata, initial_supply \in U256 :
       CallInit(a, m[1], m[2], m[3], initial_supply)

\* The step is a successful transfer_from(a, _, amount) by a caller whose
\* allowance from a was at least amount and falls by amount.
AllowedSpend(a) ==
  \E c \in Callers, to \in Address, amount \in U256 :
    /\ CallTransferFrom(c, a, to, amount)
    /\ call'.status = "ok"
    /\ allowance(Self, a, c) >= amount
    /\ allowances'[a][c] = allowances[a][c] - amount

\* C19: authorization of debits: balances[a] decreases only in a call made by
\* a (transfer or init) or in a successful transfer_from(a, _, amount) by a
\* caller whose allowance from a covered amount and falls by it; no other call
\* lowers balances[a], and allowances[o][s] increases only by an approve made
\* by o.
C19_DebitsAreAuthorized ==
  [][/\ \A a \in Address :
          balances'[a] < balances[a] => OwnCall(a) \/ AllowedSpend(a)
     /\ \A o \in Address, s \in Address :
          allowances'[o][s] > allowances[o][s]
            => \E amount \in U256 : CallApprove(o, s, amount)]_vars

\* The balances obtained by replaying the Transfer events of the log l in
\* order from all-zero balances: credit the receiver, debit the sender unless
\* the sender is 0x0.
RECURSIVE Replay(_)
Replay(l) ==
  IF l = <<>> THEN [a \in Address |-> 0]
  ELSE LET before == Replay(SubSeq(l, 1, Len(l) - 1))
           e == Last(l)
       IN  IF e.event # "Transfer" THEN before
           ELSE LET debited == IF e.a = ZERO THEN before
                               ELSE [before EXCEPT ![e.a] = @ - e.value]
                IN  [debited EXCEPT ![e.b] = @ + e.value]

\* The sum of the values of the Transfer events of l that come from 0x0.
RECURSIVE Minted(_)
Minted(l) ==
  IF l = <<>> THEN 0
  ELSE LET e == Last(l) IN
       (IF e.event = "Transfer" /\ e.a = ZERO THEN e.value ELSE 0)
         + Minted(SubSeq(l, 1, Len(l) - 1))

====
